---- MODULE Spec2Model ----
\* Verification model of the cadence_scheduler scheduling engine
\* (app/agents/scheduler_brain.py) and of the orchestration workflow
\* (app/orchestration/scheduler_graph.py, agent_adapters.py).
\*
\* Time is counted in whole minutes from 00:00 of "today" (the first grid day).
EXTENDS Integers, Sequences, FiniteSets, TLC

\* ---------------------------------------------------------------------------
\* Program constants
\* ---------------------------------------------------------------------------
SlotMinutes == 15
MinutesPerDay == 1440
HorizonDays == 7
DatetimeMax == 9999999
MaxConflictRetries == 3
OrdLowerA == 97
AlphabetSize == 26
\* chr(304), LATIN CAPITAL LETTER I WITH DOT ABOVE: its lower() is "i" followed
\* by chr(775), the one character below chr(97 + 672) whose lower() has two
DottedCapitalI == 304

\* ---------------------------------------------------------------------------
\* Bounds of the model
\* ---------------------------------------------------------------------------
MaxTasks == 2
MaxScheduleRuns == 5
MaxLetter == 1

\* Python values that may be None carry a type tag
None == [type |-> "NoneType"]
IsNone(x) == x.type = "NoneType"
Str(chars) == [type |-> "str", chars |-> chars]
List(items) == [type |-> "list", items |-> items]
\* a datetime: local wall-clock minutes; aware = it has a tzinfo of utcoffset minutes
Datetime(local) == [type |-> "datetime", local |-> local, aware |-> FALSE, utcoffset |-> 0]
AwareDatetime(local, utcoffset) ==
    [type |-> "datetime", local |-> local, aware |-> TRUE, utcoffset |-> utcoffset]

Min(a, b) == IF a < b THEN a ELSE b
Max(a, b) == IF a > b THEN a ELSE b

\* datetime.combine(day, time(h, m)) as minutes from today 00:00
At(day, h, m) == day * MinutesPerDay + h * 60 + m

\* a time-of-day string "HH:MM" is kept as its two numeric fields
HM(h, m) == [h |-> h, m |-> m]

\* time.fromisoformat: "HH:MM" -> minute of the day
time_fromisoformat(v) == v.h * 60 + v.m

\* dict.get(key, default)
dict_get(d, k, default) == IF k \in DOMAIN d THEN d[k] ELSE default

\* ---------------------------------------------------------------------------
\* Availability grid
\* ---------------------------------------------------------------------------
TimeSlot(s, e) == [start |-> s, end |-> e, available |-> TRUE]

\* the list with every element evaluated
AsList(f) == SubSeq(f, 1, Len(f))

\* F applied to the value of v, with v evaluated once
WithValue(v, F(_)) == CHOOSE r \in { F(x) : x \in {v} } : TRUE

\* variant: the loop stops one slot early
initialize_day_slots_one_short(day, slot_duration_minutes) ==
    LET start_of_day == At(day, 0, 0)
        end_of_day_minute == At(day, 23, 59)
        count == (end_of_day_minute - start_of_day) \div slot_duration_minutes
    IN AsList([k \in 1..count |->
                 TimeSlot(start_of_day + (k - 1) * slot_duration_minutes,
                          start_of_day + k * slot_duration_minutes)])

\* initialize_day_slots: the while loop appends a slot for every current_time
\* = start_of_day + k * slot_duration_minutes with current_time < end_of_day,
\* where end_of_day is 23:59:59.999999, i.e. current_time <= 23:59
initialize_day_slots(day, slot_duration_minutes) ==
    LET start_of_day == At(day, 0, 0)
        end_of_day_minute == At(day, 23, 59)
        count == (end_of_day_minute - start_of_day) \div slot_duration_minutes + 1
    IN AsList([k \in 1..count |->
                 TimeSlot(start_of_day + (k - 1) * slot_duration_minutes,
                          start_of_day + k * slot_duration_minutes)])

\* variant: the second comparison tests the block end instead of the block start
mark_slots_unavailable_wrong_bound(slot_list, start_block, end_block) ==
    WithValue(slot_list, LAMBDA slots :
        AsList([i \in DOMAIN slots |->
            IF slots[i].start < end_block /\ slots[i].end > end_block
            THEN [slots[i] EXCEPT !.available = FALSE]
            ELSE slots[i]]))

mark_slots_unavailable(slot_list, start_block, end_block) ==
    WithValue(slot_list, LAMBDA slots :
        AsList([i \in DOMAIN slots |->
            IF slots[i].start < end_block /\ slots[i].end > start_block
            THEN [slots[i] EXCEPT !.available = FALSE]
            ELSE slots[i]]))

apply_preferences(slot_list, preferences) ==
    WithValue(slot_list, LAMBDA slots :
        LET work_start == time_fromisoformat(dict_get(preferences, "work_hours_start", HM(9, 0)))
            work_end == time_fromisoformat(dict_get(preferences, "work_hours_end", HM(17, 0)))
            blocked == AsList([i \in DOMAIN slots |->
                         LET slot_time == slots[i].start % MinutesPerDay
                         IN IF ~(work_start <= slot_time /\ slot_time < work_end)
                            THEN [slots[i] EXCEPT !.available = FALSE]
                            ELSE slots[i]])
            lunch_start == (slots[1].start \div MinutesPerDay) * MinutesPerDay
                           + time_fromisoformat(dict_get(preferences, "lunch_time_start", HM(13, 0)))
            lunch_end == lunch_start + dict_get(preferences, "lunch_duration_minutes", 60)
        IN mark_slots_unavailable(blocked, lunch_start, lunch_end))

\* the for loop of build_availability_matrix over existing_events, from the
\* k-th event on
RECURSIVE apply_events(_, _, _, _)
apply_events(slot_list, existing_events, k, target_date) ==
    WithValue(slot_list, LAMBDA slots :
        IF k > Len(existing_events) THEN slots
        ELSE IF existing_events[k].start \div MinutesPerDay = target_date
        THEN apply_events(mark_slots_unavailable(slots, existing_events[k].start,
                                                 existing_events[k].end),
                          existing_events, k + 1, target_date)
        ELSE apply_events(slots, existing_events, k + 1, target_date))

\* variant: the existing events are not applied
build_availability_matrix_no_events(target_date, existing_events, preferences) ==
    apply_preferences(initialize_day_slots(target_date, SlotMinutes), preferences)

build_availability_matrix(target_date, existing_events, preferences) ==
    apply_events(apply_preferences(initialize_day_slots(target_date, SlotMinutes), preferences),
                 existing_events, 1, target_date)

\* the loop of schedule_tasks_for_next_seven_days that concatenates the days
RECURSIVE build_horizon(_, _, _, _)
build_horizon(day_offset, days, events, preferences) ==
    IF day_offset >= days THEN <<>>
    ELSE build_availability_matrix(day_offset, events, preferences)
         \o build_horizon(day_offset + 1, days, events, preferences)

\* ---------------------------------------------------------------------------
\* Candidate windows
\* ---------------------------------------------------------------------------
\* Python slice s[a:b] for a >= 0 (a negative b counts from the end)
PySlice(s, a, b) ==
    LET n == Len(s)
        hi == IF b < 0 THEN Max(n + b, 0) ELSE Min(b, n)
        lo == Min(a, n)
    IN IF hi <= lo THEN <<>> ELSE SubSeq(s, lo + 1, hi)

\* variant: any() in place of all()
AnyAvailable(window) == \E j \in DOMAIN window : window[j].available

AllAvailable(window) == \A j \in DOMAIN window : window[j].available

\* variant: floor division
required_slots_floor(task, slot_duration_minutes) ==
    task.duration_minutes \div slot_duration_minutes

required_slots(task, slot_duration_minutes) ==
    -((-task.duration_minutes) \div slot_duration_minutes)

\* the loop of find_candidate_slots: i ranges over range(len - required + 1)
\* in increasing order and keeps the windows whose slots are all available
find_candidate_slots(task, availability) ==
    LET required_slots_count == required_slots(task, SlotMinutes)
        last == Len(availability) - required_slots_count
        range == AsList([k \in 1..(last + 1) |-> k - 1])
    IN WithValue(SelectSeq(range, LAMBDA i :
                    AllAvailable(PySlice(availability, i, i + required_slots_count))),
                 LAMBDA kept :
                    AsList([k \in DOMAIN kept |->
                        PySlice(availability, kept[k], kept[k] + required_slots_count)]))

\* ---------------------------------------------------------------------------
\* Advisory slot selection
\* ---------------------------------------------------------------------------
\* strings of the advisory response are kept as sequences of character codes
Underscore == 95
SlotPrefix == <<115, 108, 111, 116, 95>>

\* f"slot_{chr(97 + i)}": the id given to the candidate of index i
slot_id(i) == SlotPrefix \o <<OrdLowerA + i>>

startswith(s, prefix) ==
    Len(s) >= Len(prefix) /\ SubSeq(s, 1, Len(prefix)) = prefix

\* str.split(sep): the parts between the separators
RECURSIVE split(_, _)
split(s, sep) ==
    IF \A j \in DOMAIN s : s[j] # sep THEN <<s>>
    ELSE LET p == CHOOSE j \in DOMAIN s : s[j] = sep /\ \A q \in 1..(j - 1) : s[q] # sep
         IN <<SubSeq(s, 1, p - 1)>> \o split(SubSeq(s, p + 1, Len(s)), sep)

\* str.lower() of one character, as a string: ASCII and Latin-1 capitals
\* move by 32, chr(304) becomes two characters, and every other code the
\* ids use (above 122) stays one character above 122
lower(c) ==
    IF c >= 65 /\ c <= 90 THEN <<c + 32>>
    ELSE IF c >= 192 /\ c <= 222 /\ c # 215 THEN <<c + 32>>
    ELSE IF c = DottedCapitalI THEN <<105, 775>>
    ELSE <<c>>

\* a <= b on strings: lexicographic order of the character codes
str_le(a, b) ==
    \/ Len(a) <= Len(b) /\ SubSeq(b, 1, Len(a)) = a
    \/ \E k \in 1..Len(a) :
          /\ k <= Len(b)
          /\ a[k] < b[k]
          /\ \A q \in 1..(k - 1) : a[q] = b[q]

\* what call_llm returns: text that json.loads rejects, or a JSON object
\* whose best_slot_id is None or a string
NotJson == [kind |-> "not_json"]
JsonObject(best_id) == [kind |-> "json_object", best_slot_id |-> best_id]

\* call_llm when the model is unavailable or its invocation raises: the
\* heuristic answer {"best_slot_id": "slot_a"}
call_llm_fallback == JsonObject(Str(slot_id(0)))

\* variant: the letter is not checked against a..z before the index is
llm_choose_best_slot_unchecked_letter(candidates, response_str) ==
    IF response_str.kind # "json_object" THEN List(candidates[1])
    ELSE LET best_id == response_str.best_slot_id
         IN IF best_id.type # "str" THEN None
            ELSE IF best_id.chars = <<>> \/ ~startswith(best_id.chars, SlotPrefix) THEN None
            ELSE LET parts == split(best_id.chars, Underscore)
                 IN IF Len(parts) # 2 \/ parts[2] = <<>> THEN None
                    ELSE LET letter == lower(parts[2][1])
                         IN IF Len(letter) # 1 THEN List(candidates[1])
                            ELSE LET chosen_index == letter[1] - OrdLowerA
                                 IN IF chosen_index < 0 \/ chosen_index >= Len(candidates)
                                    THEN None
                                    ELSE List(candidates[chosen_index + 1])

\* llm_choose_best_slot after call_llm has returned response_str; the result
\* is None or the chosen window; ord(letter) raises TypeError on a string of
\* two characters and the except branch returns candidates[0]
llm_choose_best_slot(candidates, response_str) ==
    IF response_str.kind # "json_object" THEN List(candidates[1])
    ELSE LET best_id == response_str.best_slot_id
         IN IF best_id.type # "str" THEN None
            ELSE IF best_id.chars = <<>> \/ ~startswith(best_id.chars, SlotPrefix) THEN None
            ELSE LET parts == split(best_id.chars, Underscore)
                 IN IF Len(parts) # 2 \/ parts[2] = <<>> THEN None
                    ELSE LET letter == lower(parts[2][1])
                         IN IF ~(/\ str_le(<<OrdLowerA>>, letter)
                                 /\ str_le(letter, <<OrdLowerA + AlphabetSize - 1>>))
                            THEN None
                            ELSE IF Len(letter) # 1 THEN List(candidates[1])
                            ELSE LET chosen_index == letter[1] - OrdLowerA
                                 IN IF chosen_index < 0 \/ chosen_index >= Len(candidates)
                                    THEN None
                                    ELSE List(candidates[chosen_index + 1])

\* ---------------------------------------------------------------------------
\* Scheduling pass
\* ---------------------------------------------------------------------------
\* _to_naive_utc: a deadline is None, or a local time with utcoffset None
\* (naive) or a number of minutes (aware)
to_naive_utc(dt) ==
    IF IsNone(dt) THEN None
    ELSE IF ~dt.aware THEN dt
    ELSE Datetime(dt.local - dt.utcoffset)

\* variant: the deadline is left out of the key
sort_key_priority_only(t) == <<t.priority_num, DatetimeMax>>

\* the sort key of line 510
sort_key(t) ==
    LET d == to_naive_utc(t.deadline)
    IN <<t.priority_num, IF IsNone(d) THEN DatetimeMax ELSE d.local>>

key_less(a, b) == a[1] < b[1] \/ (a[1] = b[1] /\ a[2] < b[2])

\* sorted(): stable, an element goes after every element whose key is not greater
insert_stable(sorted, t) ==
    LET n == Cardinality({j \in DOMAIN sorted : ~key_less(sort_key(t), sort_key(sorted[j]))})
    IN SubSeq(sorted, 1, n) \o <<t>> \o SubSeq(sorted, n + 1, Len(sorted))

RECURSIVE sorted_by_key(_)
sorted_by_key(ts) ==
    IF ts = <<>> THEN <<>>
    ELSE insert_stable(sorted_by_key(SubSeq(ts, 1, Len(ts) - 1)), ts[Len(ts)])

NoSlotsReason == "No available time slots found for the required duration"
LlmNoneReason == "LLM could not identify a feasible slot"

\* variant: the conflict is not recorded
record_conflict_dropped(conflicts, task, reason) == conflicts

\* conflicts.append({"task": task.description, "reason": ...})
record_conflict(conflicts, task, reason) ==
    Append(conflicts, [task |-> task.description, reason |-> reason])

\* one iteration of the for loop of schedule_tasks_intelligently once
\* candidates = find_candidate_slots(task, availability) is known, for the
\* advisory response response_str; asked = the advisory strategy was called;
\* raised = the IndexError of best_slot_window[0] on an empty window
process_task(task, candidates, availability, scheduled_tasks, conflicts, response_str) ==
    LET unchanged == [availability |-> availability, scheduled_tasks |-> scheduled_tasks,
                      conflicts |-> conflicts, raised |-> FALSE, asked |-> FALSE]
    IN IF candidates = <<>>
       THEN [unchanged EXCEPT !.conflicts = record_conflict(conflicts, task, NoSlotsReason)]
       ELSE LET chosen == llm_choose_best_slot(candidates, response_str)
                best_slot_window == IF IsNone(chosen) THEN <<>> ELSE chosen.items
            IN IF IsNone(chosen)
               THEN [unchanged EXCEPT !.asked = TRUE,
                                      !.conflicts = record_conflict(conflicts, task, LlmNoneReason)]
               ELSE IF best_slot_window = <<>>
               THEN [unchanged EXCEPT !.asked = TRUE, !.raised = TRUE]
               ELSE LET start_time == best_slot_window[1].start
                        end_time == best_slot_window[Len(best_slot_window)].end
                    IN [availability |-> mark_slots_unavailable(availability, start_time, end_time),
                        scheduled_tasks |-> Append(scheduled_tasks,
                            [task_id |-> task.id, description |-> task.description,
                             start_time |-> start_time, end_time |-> end_time,
                             duration_minutes |-> task.duration_minutes]),
                        conflicts |-> conflicts, raised |-> FALSE, asked |-> TRUE]

\* ---------------------------------------------------------------------------
\* Task objects
\* ---------------------------------------------------------------------------
Uuid(n) == [type |-> "uuid", n |-> n]
Int_(n) == [type |-> "int", value |-> n]
Label(l) == [type |-> "str", value |-> l]

Task(id, description, duration_minutes, priority_num, deadline, constraints) ==
    [id |-> id, description |-> description, duration_minutes |-> duration_minutes,
     priority_num |-> priority_num, deadline |-> deadline, constraints |-> constraints]

\* _infer_priority_num of Task.from_json
infer_priority_num(priority_label, fallback) ==
    IF IsNone(priority_label) THEN fallback
    ELSE IF priority_label.value \in {"highest", "very high", "high"} THEN 1
    ELSE IF priority_label.value \in {"medium", "normal"} THEN 3
    ELSE IF priority_label.value \in {"low", "very low", "lowest"} THEN 5
    ELSE fallback

\* Task.from_json for a decomposed-task dict; uuid is the fresh id of the object
from_json(data, uuid) ==
    LET end_dt == to_naive_utc(data.end)
        inferred_duration == IF IsNone(data.duration_minutes) THEN 60
                             ELSE data.duration_minutes.value
        inferred_priority_num == IF IsNone(data.priority_num)
                                 THEN infer_priority_num(data.priority, 3)
                                 ELSE data.priority_num.value
    IN Task(Uuid(uuid), data.title, inferred_duration, inferred_priority_num,
            end_dt, data.constraints)

\* lines 617-624 of schedule_tasks_for_next_seven_days
normalize_tasks(ts, first_uuid) ==
    AsList([k \in DOMAIN ts |-> from_json(ts[k], first_uuid + k - 1)])

\* ---------------------------------------------------------------------------
\* Inputs of the model
\* ---------------------------------------------------------------------------
After1700 == "after 17:00"

TaskPool ==
    { Task(Uuid(101), "A", 60, 1, None, <<>>),
      Task(Uuid(102), "B", 50, 3, None, <<>>),
      Task(Uuid(103), "C", 90, 1, AwareDatetime(At(1, 17, 0), 120), <<After1700>>),
      Task(Uuid(104), "D", 300, 1, Datetime(At(1, 16, 0)), <<>>),
      Task(Uuid(105), "Z", 0, 1, None, <<>>),
      Task(Uuid(106), "N", 0 - 30, 3, None, <<>>) }

TaskLists ==
    { ts \in UNION { [1..n -> TaskPool] : n \in 0..MaxTasks } :
        \A i, j \in DOMAIN ts : i # j => ts[i].id # ts[j].id }

TaskDict(title, duration_minutes, priority, priority_num, end, constraints) ==
    [title |-> title, duration_minutes |-> duration_minutes, priority |-> priority,
     priority_num |-> priority_num, end |-> end, constraints |-> constraints]

DictA == TaskDict("A", Int_(60), Label("high"), Int_(1), None, <<>>)
DictD == TaskDict("D", Int_(300), Label("high"), None, None, <<>>)
DictM == TaskDict("M", None, Label("someday"), None, Datetime(At(1, 17, 0)), <<After1700>>)
DictS == TaskDict("S", Int_(20), Label("low"), None, None, <<>>)

\* what the decomposition step may hand to the workflow
DecomposedLists == { <<>>, <<DictA>>, <<DictD, DictA>>, <<DictM>>, <<DictS>> }

CalendarEvent(summary, start, end) == [summary |-> summary, start |-> start, end |-> end]

Dentist == CalendarEvent("Dentist Appointment", At(0, 10, 0), At(0, 10, 45))
Overnight == CalendarEvent("Overnight trip", At(0, 16, 0), At(1, 10, 0))

\* rows the calendar query returns, in start order
EventLists == { <<>>, <<Dentist>>, <<Dentist, Overnight>> }

NarrowPreferences ==
    [user_id |-> "u1", work_hours_start |-> HM(9, 0), work_hours_end |-> HM(10, 0)]

PreferencesPool ==
    { [user_id |-> "u1"],
      NarrowPreferences,
      [user_id |-> "u1", work_hours_start |-> HM(16, 0), work_hours_end |-> HM(18, 10),
       lunch_time_start |-> HM(12, 0), lunch_duration_minutes |-> 30] }

\* user_preferences of the workflow state: {} as the API passes it, or set
EmptyDict == [k \in {} |-> 0]
WorkflowPreferences == { EmptyDict, NarrowPreferences }

\* the advisory answers the model draws from
AdvisoryResponses ==
    { JsonObject(Str(slot_id(k))) : k \in 0..MaxLetter }
    \cup { call_llm_fallback }
    \cup { JsonObject(Str(slot_id(AlphabetSize - 1))), JsonObject(Str(slot_id(AlphabetSize))),
           JsonObject(Str(slot_id(DottedCapitalI - OrdLowerA))),
           JsonObject(None), JsonObject(Str(SlotPrefix \o <<OrdLowerA, Underscore, OrdLowerA>>)),
           NotJson }

\* ---------------------------------------------------------------------------
\* State
\* ---------------------------------------------------------------------------
VARIABLES
    tasks,            \* normalized tasks of the scheduling call
    preferences,      \* preferences argument
    events,           \* busy blocks returned by the calendar query
    horizon,          \* number of grid days: 1 (single-day callers) or HorizonDays
    availability,     \* the grid, a list of TimeSlot
    sorted_tasks,     \* sorted_tasks of schedule_tasks_intelligently
    idx,              \* position of the for loop in sorted_tasks
    scheduled_tasks,  \* scheduled_tasks of the pass
    conflicts,        \* conflicts of the pass
    response_str,     \* the advisory response used for the task just processed
    result,           \* the returned dict, None before the return
    pc,               \* position in the scheduling call
    node,             \* the workflow node to execute next
    state,            \* the AgentState of the workflow run
    uuid_counter,     \* number of Task ids generated so far
    schedule_runs,    \* executions of the schedule node in this run
    router_writes_kept, \* whether the graph library carries what the router
                      \* writes into its state argument on to the next node
    call_log          \* history: the busy blocks and advisory responses of the
                      \* previous scheduling call, the responses of this one

\* no scheduling call has been made
EmptyLog == [prev_events |-> <<>>, prev_responses |-> <<>>, responses |-> <<>>]

engine_vars == <<tasks, preferences, events, horizon, availability, sorted_tasks, idx,
                 scheduled_tasks, conflicts, response_str, result, pc>>
flow_vars == <<node, state, uuid_counter, schedule_runs, router_writes_kept, call_log>>
vars == <<tasks, preferences, events, horizon, availability, sorted_tasks, idx,
          scheduled_tasks, conflicts, response_str, result, pc,
          node, state, uuid_counter, schedule_runs, router_writes_kept, call_log>>

\* dict[key] = value
dict_set(d, k, v) == [x \in DOMAIN d \cup {k} |-> IF x = k THEN v ELSE d[x]]

\* create_initial_state
create_initial_state(user_preferences) ==
    [user_id |-> "u1",
     decomposed_tasks |-> <<>>,
     scheduling_plan |-> <<>>,
     conflicts |-> <<>>,
     scheduled_events |-> <<>>,
     needs_user_input |-> FALSE,
     user_preferences |-> user_preferences,
     errors |-> <<>>,
     current_agent |-> "None"]

EngineIdle ==
    /\ tasks = <<>>
    /\ preferences = EmptyDict
    /\ events = <<>>
    /\ horizon = HorizonDays
    /\ availability = <<>>
    /\ sorted_tasks = <<>>
    /\ idx = 0
    /\ scheduled_tasks = <<>>
    /\ conflicts = <<>>
    /\ response_str = NotJson
    /\ result = None
    /\ pc = "idle"

\* ---------------------------------------------------------------------------
\* The scheduling call
\* ---------------------------------------------------------------------------
\* get_existing_calendar_from_db (line 635): the rows, or the query raises
FetchCalendar ==
    /\ pc = "called"
    /\ \/ \E evs \in EventLists : events' = evs /\ pc' = "fetched"
       \/ events' = events /\ pc' = "raised"
    /\ UNCHANGED <<tasks, preferences, horizon, availability, sorted_tasks, idx,
                   scheduled_tasks, conflicts, response_str, result>>
    /\ UNCHANGED flow_vars

\* variant: the slots of the previous grid are kept and marked again
BuildAvailability_reuses_grid ==
    /\ pc = "fetched"
    /\ availability' =
          WithValue(build_horizon(0, horizon, events, preferences), LAMBDA fresh :
              IF Len(availability) # Len(fresh) THEN fresh
              ELSE AsList([i \in DOMAIN fresh |->
                      [fresh[i] EXCEPT !.available = @ /\ availability[i].available]]))
    /\ pc' = "built"
    /\ UNCHANGED <<tasks, preferences, events, horizon, sorted_tasks, idx,
                   scheduled_tasks, conflicts, response_str, result>>
    /\ UNCHANGED flow_vars

\* schedule_tasks_for_next_seven_days lines 637-642 (horizon = HorizonDays) and
\* the single-day callers (horizon = 1): build the grid
BuildAvailability ==
    /\ pc = "fetched"
    /\ availability' = build_horizon(0, horizon, events, preferences)
    /\ pc' = "built"
    /\ UNCHANGED <<tasks, preferences, events, horizon, sorted_tasks, idx,
                   scheduled_tasks, conflicts, response_str, result>>
    /\ UNCHANGED flow_vars

\* schedule_tasks_intelligently lines 510-513
SortTasks ==
    /\ pc = "built"
    /\ sorted_tasks' = sorted_by_key(tasks)
    /\ scheduled_tasks' = <<>>
    /\ conflicts' = <<>>
    /\ idx' = 1
    /\ pc' = "loop"
    /\ UNCHANGED <<tasks, preferences, events, horizon, availability, response_str, result>>
    /\ UNCHANGED flow_vars

\* an iteration that has candidates enters llm_choose_best_slot (line 530).
\* Building candidate_context reads window[0] of every candidate (lines
\* 258-264, outside the try block): an empty window raises IndexError out of
\* the pass. Otherwise call_llm is called; llm.invoke (line 211) is a
\* blocking call with no timeout argument, the pass waits in it for the answer
CallLlm ==
    /\ pc = "loop"
    /\ idx <= Len(sorted_tasks)
    /\ \E candidates \in {find_candidate_slots(sorted_tasks[idx], availability)} :
          /\ candidates # <<>>
          /\ pc' = IF \E k \in DOMAIN candidates : candidates[k] = <<>>
                   THEN "raised" ELSE "advisory"
    /\ UNCHANGED <<tasks, preferences, events, horizon, availability, sorted_tasks, idx,
                   scheduled_tasks, conflicts, response_str, result>>
    /\ UNCHANGED flow_vars

\* variant: a placement marks every slot up to the end of the chosen window
ProcessTask_marks_from_start ==
    /\ pc \in {"loop", "advisory"}
    /\ idx <= Len(sorted_tasks)
    /\ \E candidates \in {find_candidate_slots(sorted_tasks[idx], availability)} :
          /\ (pc = "advisory") <=> (candidates # <<>>)
          /\ \E r \in AdvisoryResponses :
              LET out == process_task(sorted_tasks[idx], candidates, availability,
                                      scheduled_tasks, conflicts, r)
              IN /\ availability' =
                       IF Len(out.scheduled_tasks) = Len(scheduled_tasks) THEN out.availability
                       ELSE mark_slots_unavailable(out.availability, 0,
                               out.scheduled_tasks[Len(out.scheduled_tasks)].end_time)
                 /\ scheduled_tasks' = out.scheduled_tasks
                 /\ conflicts' = out.conflicts
                 /\ response_str' = IF out.asked THEN r ELSE response_str
                 /\ pc' = IF out.raised THEN "raised" ELSE "loop"
                 /\ call_log' = IF out.asked
                                 THEN [call_log EXCEPT !.responses = Append(@, r)]
                                 ELSE call_log
    /\ idx' = idx + 1
    /\ UNCHANGED <<tasks, preferences, events, horizon, sorted_tasks, result>>
    /\ UNCHANGED <<node, state, uuid_counter, schedule_runs, router_writes_kept>>

\* one iteration of the loop, lines 515-553: at once when there is no
\* candidate, else when call_llm has returned
ProcessTask ==
    /\ pc \in {"loop", "advisory"}
    /\ idx <= Len(sorted_tasks)
    /\ \E candidates \in {find_candidate_slots(sorted_tasks[idx], availability)} :
          /\ (pc = "advisory") <=> (candidates # <<>>)
          /\ \E r \in AdvisoryResponses :
              LET out == process_task(sorted_tasks[idx], candidates, availability,
                                      scheduled_tasks, conflicts, r)
              IN /\ availability' = out.availability
                 /\ scheduled_tasks' = out.scheduled_tasks
                 /\ conflicts' = out.conflicts
                 /\ response_str' = IF out.asked THEN r ELSE response_str
                 /\ pc' = IF out.raised THEN "raised" ELSE "loop"
                 /\ call_log' = IF out.asked
                                 THEN [call_log EXCEPT !.responses = Append(@, r)]
                                 ELSE call_log
    /\ idx' = idx + 1
    /\ UNCHANGED <<tasks, preferences, events, horizon, sorted_tasks, result>>
    /\ UNCHANGED <<node, state, uuid_counter, schedule_runs, router_writes_kept>>

\* variant: the flag is never raised
needs_user_input_never(conflict_list) == FALSE

\* "needs_user_input": len(conflicts) > 0
needs_user_input_of(conflict_list) == Len(conflict_list) > 0

\* lines 555-559
ReturnResult ==
    /\ pc = "loop"
    /\ idx > Len(sorted_tasks)
    /\ result' = [type |-> "dict", scheduled_plan |-> scheduled_tasks, conflicts |-> conflicts,
                  needs_user_input |-> needs_user_input_of(conflicts)]
    /\ pc' = "returned"
    /\ UNCHANGED <<tasks, preferences, events, horizon, availability, sorted_tasks, idx,
                   scheduled_tasks, conflicts, response_str>>
    /\ UNCHANGED flow_vars

EngineNext ==
    FetchCalendar \/ BuildAvailability \/ SortTasks \/ CallLlm \/ ProcessTask \/ ReturnResult

\* a direct call of the engine with Task objects (app/main.py, the module's tests)
EngineInit ==
    /\ tasks \in TaskLists
    /\ preferences \in PreferencesPool
    /\ horizon \in {1, HorizonDays}
    /\ events = <<>>
    /\ availability = <<>>
    /\ sorted_tasks = <<>>
    /\ idx = 0
    /\ scheduled_tasks = <<>>
    /\ conflicts = <<>>
    /\ response_str = NotJson
    /\ result = None
    /\ pc = "called"
    /\ node = "direct_call"
    /\ state = create_initial_state(EmptyDict)
    /\ uuid_counter = 0
    /\ schedule_runs = 0
    /\ router_writes_kept = TRUE
    /\ call_log = EmptyLog

EngineSpec == EngineInit /\ [][EngineNext]_vars

\* a pass over the grid of one day, as test_step_3_and_4 runs it, for tasks
\* of 90 and 300 minutes, both of priority 1, with the default preferences
ExampleT1 == Task(Uuid(201), "T1", 90, 1, None, <<>>)
ExampleT2 == Task(Uuid(202), "T2", 300, 1, None, <<>>)

ExampleInit ==
    /\ tasks \in { <<>>, <<ExampleT1>>, <<ExampleT2>>, <<ExampleT1, ExampleT2>>,
                    <<ExampleT2, ExampleT1>> }
    /\ preferences = [user_id |-> "u1"]
    /\ horizon = 1
    /\ events = <<>>
    /\ availability = <<>>
    /\ sorted_tasks = <<>>
    /\ idx = 0
    /\ scheduled_tasks = <<>>
    /\ conflicts = <<>>
    /\ response_str = NotJson
    /\ result = None
    /\ pc = "called"
    /\ node = "direct_call"
    /\ state = create_initial_state(EmptyDict)
    /\ uuid_counter = 0
    /\ schedule_runs = 0
    /\ router_writes_kept = TRUE
    /\ call_log = EmptyLog

ExampleSpec == ExampleInit /\ [][EngineNext]_vars

\* the steps of the pass that are the program's own always run on; the answer
\* of the advisory service (ProcessTask from "advisory") is not the program's
FairEngineSpec ==
    /\ EngineSpec
    /\ WF_vars(FetchCalendar)
    /\ WF_vars(BuildAvailability)
    /\ WF_vars(SortTasks)
    /\ WF_vars(CallLlm)
    /\ WF_vars(pc = "loop" /\ ProcessTask)
    /\ WF_vars(ReturnResult)

\* ---------------------------------------------------------------------------
\* The orchestration workflow
\* ---------------------------------------------------------------------------
errors_append(st, msg) == [st EXCEPT !.errors = Append(st.errors, msg)]

\* Agent1Adapter.execute: the decomposition returns a task list, or raises
DecomposeNode ==
    /\ node = "decompose"
    /\ \/ \E ts \in DecomposedLists :
            state' = [state EXCEPT !.decomposed_tasks = ts,
                                   !.current_agent = "Agent 1 Complete"]
       \/ state' = errors_append(state, "Agent 1 failed")
    /\ node' = "schedule"
    /\ UNCHANGED <<uuid_counter, schedule_runs, router_writes_kept, call_log>>
    /\ UNCHANGED engine_vars

\* the defaults Agent2Adapter.execute adds to the copied preferences
agent2_preferences(st) ==
    LET p0 == dict_set(st.user_preferences, "user_id", st.user_id)
        p1 == IF "work_hours_start" \notin DOMAIN p0
              THEN dict_set(p0, "work_hours_start", HM(9, 0)) ELSE p0
        p2 == IF "work_hours_end" \notin DOMAIN p1
              THEN dict_set(p1, "work_hours_end", HM(18, 0)) ELSE p1
        p3 == IF "lunch_time_start" \notin DOMAIN p2
              THEN dict_set(p2, "lunch_time_start", HM(13, 0)) ELSE p2
    IN IF "lunch_duration_minutes" \notin DOMAIN p3
       THEN dict_set(p3, "lunch_duration_minutes", 60) ELSE p3

\* Agent2Adapter.execute up to the call of the scheduler (lines 109-150) and
\* the normalisation of the tasks inside it
ScheduleNodeBegin ==
    /\ node = "schedule"
    /\ pc = "idle"
    /\ schedule_runs < MaxScheduleRuns
    /\ schedule_runs' = schedule_runs + 1
    /\ UNCHANGED router_writes_kept
    /\ IF state.decomposed_tasks = <<>>
       THEN /\ state' = [errors_append(state, "No tasks to schedule")
                           EXCEPT !.needs_user_input = FALSE]
            /\ node' = "route"
            /\ UNCHANGED <<uuid_counter, call_log>>
            /\ UNCHANGED engine_vars
       ELSE /\ preferences' = agent2_preferences(state)
            /\ tasks' = normalize_tasks(state.decomposed_tasks, uuid_counter + 1)
            /\ uuid_counter' = uuid_counter + Len(state.decomposed_tasks)
            /\ call_log' = [prev_events |-> events,
                            prev_responses |-> call_log.responses,
                            responses |-> <<>>]
            /\ horizon' = HorizonDays
            /\ result' = None
            /\ pc' = "called"
            /\ UNCHANGED <<events, availability, sorted_tasks, idx, scheduled_tasks,
                           conflicts, response_str>>
            /\ UNCHANGED <<node, state>>

\* variant: the except branch also empties the plan
ScheduleNodeEnd_clears_plan ==
    /\ node = "schedule"
    /\ pc \in {"returned", "raised"}
    /\ IF pc = "returned"
       THEN state' = [state EXCEPT !.scheduling_plan = result.scheduled_plan,
                                   !.conflicts = result.conflicts,
                                   !.needs_user_input = result.needs_user_input,
                                   !.current_agent = "Agent 2 Complete"]
       ELSE state' = [errors_append(state, "Agent 2 failed")
                        EXCEPT !.needs_user_input = FALSE, !.scheduling_plan = <<>>]
    /\ pc' = "idle"
    /\ node' = "route"
    /\ UNCHANGED <<tasks, preferences, events, horizon, availability, sorted_tasks, idx,
                   scheduled_tasks, conflicts, response_str, result>>
    /\ UNCHANGED <<uuid_counter, schedule_runs, router_writes_kept, call_log>>

\* Agent2Adapter.execute after the scheduler has returned (lines 152-156) or
\* raised (lines 171-175)
ScheduleNodeEnd ==
    /\ node = "schedule"
    /\ pc \in {"returned", "raised"}
    /\ IF pc = "returned"
       THEN state' = [state EXCEPT !.scheduling_plan = result.scheduled_plan,
                                   !.conflicts = result.conflicts,
                                   !.needs_user_input = result.needs_user_input,
                                   !.current_agent = "Agent 2 Complete"]
       ELSE state' = [errors_append(state, "Agent 2 failed")
                        EXCEPT !.needs_user_input = FALSE]
    /\ pc' = "idle"
    /\ node' = "route"
    /\ UNCHANGED <<tasks, preferences, events, horizon, availability, sorted_tasks, idx,
                   scheduled_tasks, conflicts, response_str, result>>
    /\ UNCHANGED <<uuid_counter, schedule_runs, router_writes_kept, call_log>>

\* variant: the ceiling branch does not reset needs_user_input
route_after_scheduling_keeps_flag(st) ==
    LET conflict_attempts == dict_get(st, "conflict_resolution_attempts", 0)
    IN IF conflict_attempts >= MaxConflictRetries
       THEN [next |-> "integrate", state |-> st]
       ELSE IF dict_get(st, "needs_user_input", FALSE)
       THEN [next |-> "ask_user",
             state |-> dict_set(st, "conflict_resolution_attempts", conflict_attempts + 1)]
       ELSE [next |-> "integrate", state |-> st]

\* route_after_scheduling: the next node and the state it leaves
route_after_scheduling(st) ==
    LET conflict_attempts == dict_get(st, "conflict_resolution_attempts", 0)
    IN IF conflict_attempts >= MaxConflictRetries
       THEN [next |-> "integrate", state |-> dict_set(st, "needs_user_input", FALSE)]
       ELSE IF dict_get(st, "needs_user_input", FALSE)
       THEN [next |-> "ask_user",
             state |-> dict_set(st, "conflict_resolution_attempts", conflict_attempts + 1)]
       ELSE [next |-> "integrate", state |-> st]

\* the conditional edge of create_scheduler_graph: the returned name selects
\* the next node; the router is given the state as an argument and writes to
\* that argument, it returns no update
RouteAfterScheduling ==
    /\ node = "route"
    /\ LET r == route_after_scheduling(state)
       IN /\ node' = r.next
          /\ state' = IF router_writes_kept THEN r.state ELSE state
    /\ UNCHANGED <<uuid_counter, schedule_runs, router_writes_kept, call_log>>
    /\ UNCHANGED engine_vars

\* variant: the node also clears the conflicts it has shown
ask_user_node_clears_conflicts(st) ==
    dict_set(dict_set(st, "show_conflicts_to_user", TRUE), "conflicts", <<>>)

\* ask_user_node: state["show_conflicts_to_user"] = True
ask_user_node(st) == dict_set(st, "show_conflicts_to_user", TRUE)

\* variant: the edge from ask_user leads back to decompose
AskUserNode_to_decompose ==
    /\ node = "ask_user"
    /\ state' = ask_user_node(state)
    /\ node' = "decompose"
    /\ UNCHANGED <<uuid_counter, schedule_runs, router_writes_kept, call_log>>
    /\ UNCHANGED engine_vars

\* ask_user_node and the edge ask_user -> schedule
AskUserNode ==
    /\ node = "ask_user"
    /\ state' = ask_user_node(state)
    /\ node' = "schedule"
    /\ UNCHANGED <<uuid_counter, schedule_runs, router_writes_kept, call_log>>
    /\ UNCHANGED engine_vars

\* variant: the edge from integrate leads to the end of the run
IntegrateNode_to_end ==
    /\ node = "integrate"
    /\ IF state.scheduling_plan = <<>>
       THEN state' = [state EXCEPT !.scheduled_events = <<>>,
                                   !.current_agent = "Agent 3 Complete"]
       ELSE \/ state' = [state EXCEPT
                           !.scheduled_events =
                               AsList([k \in DOMAIN state.scheduling_plan |-> "event"]),
                           !.current_agent = "Agent 3 Complete"]
            \/ state' = [errors_append(state, "Failed to create event") EXCEPT
                           !.scheduled_events = <<>>,
                           !.current_agent = "Agent 3 Complete"]
            \/ state' = [errors_append(state, "Agent 3 failed") EXCEPT
                           !.scheduled_events = <<>>]
    /\ node' = "END"
    /\ UNCHANGED <<uuid_counter, schedule_runs, router_writes_kept, call_log>>
    /\ UNCHANGED engine_vars

\* Agent3Adapter.execute: the calendar write-back creates an event per plan
\* entry, reports errors for some entries, or raises
IntegrateNode ==
    /\ node = "integrate"
    /\ IF state.scheduling_plan = <<>>
       THEN state' = [state EXCEPT !.scheduled_events = <<>>,
                                   !.current_agent = "Agent 3 Complete"]
       ELSE \/ state' = [state EXCEPT
                           !.scheduled_events =
                               AsList([k \in DOMAIN state.scheduling_plan |-> "event"]),
                           !.current_agent = "Agent 3 Complete"]
            \/ state' = [errors_append(state, "Failed to create event") EXCEPT
                           !.scheduled_events = <<>>,
                           !.current_agent = "Agent 3 Complete"]
            \/ state' = [errors_append(state, "Agent 3 failed") EXCEPT
                           !.scheduled_events = <<>>]
    /\ node' = "meal_advisor"
    /\ UNCHANGED <<uuid_counter, schedule_runs, router_writes_kept, call_log>>
    /\ UNCHANGED engine_vars

\* meal_recommendation_node, MealRecommendationAgent.execute: no recommendation,
\* or the structured recommendations
MealAdvisorNode ==
    /\ node = "meal_advisor"
    /\ \/ state' = dict_set(state, "meal_recommendations", <<>>)
       \/ state' = dict_set(dict_set(state, "meal_recommendations", <<"recommendation">>),
                            "current_agent", "Meal Recommendation Complete")
    /\ node' = "END"
    /\ UNCHANGED <<uuid_counter, schedule_runs, router_writes_kept, call_log>>
    /\ UNCHANGED engine_vars

\* _generate_response_message of the API layer: which of its three messages
generate_response_message(st) ==
    IF dict_get(st, "needs_user_input", FALSE) THEN "conflicts need your input"
    ELSE IF Len(dict_get(st, "conflicts", <<>>)) > 0 THEN "tasks could not be scheduled"
    ELSE "scheduled all"

Init ==
    /\ EngineIdle
    /\ node = "decompose"
    /\ state \in { create_initial_state(p) : p \in WorkflowPreferences }
    /\ uuid_counter = 0
    /\ schedule_runs = 0
    /\ router_writes_kept \in BOOLEAN
    /\ call_log = EmptyLog

Next ==
    \/ DecomposeNode
    \/ ScheduleNodeBegin
    \/ FetchCalendar
    \/ BuildAvailability
    \/ SortTasks
    \/ CallLlm
    \/ ProcessTask
    \/ ReturnResult
    \/ ScheduleNodeEnd
    \/ RouteAfterScheduling
    \/ AskUserNode
    \/ IntegrateNode
    \/ MealAdvisorNode

Spec == Init /\ [][Next]_vars

\* every node of the compiled graph runs to completion once it is scheduled
FairSpec == Spec /\ WF_vars(Next)

\* ---------------------------------------------------------------------------
\* Properties
\* ---------------------------------------------------------------------------
\* half-open intervals [a_start, a_end) and [b_start, b_end) share a point
Overlaps(a_start, a_end, b_start, b_end) == a_start < b_end /\ b_start < a_end

ScheduledIds == { scheduled_tasks[i].task_id : i \in DOMAIN scheduled_tasks }
ConflictTasks == { conflicts[i].task : i \in DOMAIN conflicts }

\* the grid the pass started from
InitialGrid == build_horizon(0, horizon, events, preferences)

\* C1: in a scheduling pass no two distinct entries of the scheduled plan have
\* overlapping intervals [start_time, end_time)
C1_NoDoubleBooking ==
    \A i, j \in DOMAIN scheduled_tasks :
        i # j => ~Overlaps(scheduled_tasks[i].start_time, scheduled_tasks[i].end_time,
                           scheduled_tasks[j].start_time, scheduled_tasks[j].end_time)

C1_Witness == pc = "returned" /\ Len(result.scheduled_plan) >= 2

\* C2: no entry of the scheduled plan overlaps the interval [start, end) of an
\* input busy block, whatever the block's start and end are
C2_NoBusyOverlap ==
    \A i \in DOMAIN scheduled_tasks : \A k \in DOMAIN events :
        ~Overlaps(scheduled_tasks[i].start_time, scheduled_tasks[i].end_time,
                  events[k].start, events[k].end)

\* the order of the specification: priority ascending, then deadline ascending with a
\* missing deadline last, then input position
DeadlineBefore(a, b) ==
    /\ ~IsNone(a.deadline)
    /\ \/ IsNone(b.deadline)
       \/ (a.deadline.local - a.deadline.utcoffset) < (b.deadline.local - b.deadline.utcoffset)

InputPosition(t) == CHOOSE k \in DOMAIN tasks : tasks[k] = t

SortsBefore(a, b) ==
    \/ a.priority_num < b.priority_num
    \/ a.priority_num = b.priority_num /\ DeadlineBefore(a, b)
    \/ a.priority_num = b.priority_num /\ ~DeadlineBefore(a, b) /\ ~DeadlineBefore(b, a)
       /\ InputPosition(a) < InputPosition(b)

SortedPosition(id) == CHOOSE k \in DOMAIN sorted_tasks : sorted_tasks[k].id = id

\* C6: the tasks are processed in the order of the stable sort by (priority,
\* deadline with none last, input position), and the plan lists the placed
\* tasks in that processing order
C6_ProcessingOrder ==
    (pc \in {"loop", "advisory", "returned", "raised"} /\ idx >= 1) =>
        /\ Len(sorted_tasks) = Len(tasks)
        /\ \A k \in DOMAIN tasks : \E m \in DOMAIN sorted_tasks : sorted_tasks[m] = tasks[k]
        /\ \A m, n \in DOMAIN sorted_tasks :
              m < n => SortsBefore(sorted_tasks[m], sorted_tasks[n])
        /\ \A m, n \in DOMAIN scheduled_tasks :
              m < n => SortedPosition(scheduled_tasks[m].task_id)
                         < SortedPosition(scheduled_tasks[n].task_id)
        /\ \A m \in DOMAIN scheduled_tasks :
              SortedPosition(scheduled_tasks[m].task_id) < idx

C6_Witness ==
    /\ pc = "returned"
    /\ Len(tasks) >= 2
    /\ sorted_tasks # tasks
    /\ Len(scheduled_tasks) >= 2

\* length, in slots, of the longest run of consecutive available slots
run_starts(grid) ==
    { i \in 1..Len(grid) : grid[i].available /\ (i = 1 \/ ~grid[i - 1].available) }
run_ends(grid) ==
    { j \in 1..Len(grid) : grid[j].available /\ (j = Len(grid) \/ ~grid[j + 1].available) }

longest_run(grid) ==
    LET starts == run_starts(grid)
        ends == run_ends(grid)
        end_of(i) == CHOOSE j \in ends : j >= i /\ \A q \in ends : q >= i => j <= q
        lengths == { end_of(i) - i + 1 : i \in starts }
    IN IF lengths = {} THEN 0 ELSE CHOOSE m \in lengths : \A x \in lengths : x <= m

TooLong(t) == t.duration_minutes > SlotMinutes * longest_run(InitialGrid)

\* C8: a task longer than the longest free run of the grid is in the conflict
\* list and not in the scheduled plan
C8_TooLongConflicts ==
    pc = "returned" =>
        \A k \in DOMAIN tasks :
            TooLong(tasks[k]) =>
                /\ tasks[k].description \in ConflictTasks
                /\ tasks[k].id \notin ScheduledIds

C8_Witness ==
    /\ pc = "returned"
    /\ scheduled_tasks # <<>>
    /\ \E k \in DOMAIN tasks : TooLong(tasks[k]) /\ tasks[k].description \in ConflictTasks

\* the grid has one free run, each of a and b fits in it, both do not
CompeteForOnlyWindow(a, b) ==
    LET grid == InitialGrid
        run == longest_run(grid)
        need(t) == -((-t.duration_minutes) \div SlotMinutes)
    IN /\ Cardinality(run_starts(grid)) = 1
       /\ need(a) <= run
       /\ need(b) <= run
       /\ need(a) + need(b) > run

\* C7: of a priority-1 task and a priority-3 task that compete for the only
\* free window, the priority-1 task is placed and the other is the conflict
C7_PriorityWins ==
    pc = "returned" =>
        \A m, n \in DOMAIN tasks :
            (/\ tasks[m].priority_num = 1
             /\ tasks[n].priority_num = 3
             /\ CompeteForOnlyWindow(tasks[m], tasks[n]))
            => /\ tasks[m].id \in ScheduledIds
               /\ tasks[n].description \in ConflictTasks

\* what an explicit constraint of a task requires of the start of its window
ConstraintHolds(constraint, start_time) ==
    IF constraint = After1700 THEN start_time % MinutesPerDay >= 17 * 60 ELSE TRUE

TaskById(id) == tasks[CHOOSE k \in DOMAIN tasks : tasks[k].id = id]

\* C9: no task is placed in a window that violates one of its constraints
C9_ConstraintsRespected ==
    \A i \in DOMAIN scheduled_tasks :
        LET t == TaskById(scheduled_tasks[i].task_id)
        IN \A c \in DOMAIN t.constraints :
              ConstraintHolds(t.constraints[c], scheduled_tasks[i].start_time)

\* C10: a loop iteration whose advisory response names a slot id beyond the
\* candidate list places the task in the earliest candidate and records no
\* conflict
C10_OutOfRangeFallsBack ==
    [][ (pc = "advisory" /\ idx <= Len(sorted_tasks) /\ idx' = idx + 1) =>
          LET candidates == find_candidate_slots(sorted_tasks[idx], availability)
          IN (/\ candidates # <<>>
              /\ \E k \in Len(candidates)..(AlphabetSize - 1) :
                    response_str' = JsonObject(Str(slot_id(k))))
             => /\ conflicts' = conflicts
                /\ Len(scheduled_tasks') = Len(scheduled_tasks) + 1
                /\ scheduled_tasks'[Len(scheduled_tasks')].start_time = candidates[1][1].start
      ]_vars

conflict_attempts_of(st) == dict_get(st, "conflict_resolution_attempts", 0)

\* C3: no workflow run executes the schedule node more than
\* max_retries + 1 times
C3_BoundedRetries == schedule_runs <= MaxConflictRetries + 1

\* C4: after a schedule step with retry count below the ceiling the router
\* goes to ask_user, adding one to the count, iff the conflict list is
\* non-empty, and to integrate otherwise
C4_RouteByConflicts ==
    [][ (node = "route" /\ conflict_attempts_of(state) < MaxConflictRetries) =>
          IF state.conflicts # <<>>
          THEN /\ node' = "ask_user"
               /\ conflict_attempts_of(state') = conflict_attempts_of(state) + 1
          ELSE /\ node' = "integrate"
               /\ conflict_attempts_of(state') = conflict_attempts_of(state)
      ]_vars

\* the run went through the retry ceiling with conflicts of the last pass
EndedByExhaustion ==
    /\ node = "END"
    /\ conflict_attempts_of(state) >= MaxConflictRetries
    /\ ~IsNone(result)
    /\ result.conflicts # <<>>

\* C5: a run that ends through retry exhaustion has needs_user_input false
\* and still lists every conflict of the last pass
C5_ExhaustionKeepsConflicts ==
    EndedByExhaustion =>
        /\ state.needs_user_input = FALSE
        /\ state.conflicts = result.conflicts
        /\ generate_response_message(state) = "tasks could not be scheduled"

C5_Witness == EndedByExhaustion /\ schedule_runs = MaxConflictRetries + 1

\* answers from which no choice can be parsed: not JSON, no best_slot_id, an
\* id with two separators
UnparseableResponses ==
    { NotJson, JsonObject(None),
      JsonObject(Str(SlotPrefix \o <<OrdLowerA, Underscore, OrdLowerA>>)) }

\* C11: a loop iteration whose advisory answer is the heuristic fallback of
\* call_llm or cannot be parsed places the task in candidates[0] and records
\* no conflict
C11_FailureFallsBack ==
    [][ (/\ pc = "advisory"
         /\ idx' = idx + 1
         /\ response_str' \in {call_llm_fallback} \cup UnparseableResponses) =>
          LET candidates == find_candidate_slots(sorted_tasks[idx], availability)
          IN /\ conflicts' = conflicts
             /\ Len(scheduled_tasks') = Len(scheduled_tasks) + 1
             /\ scheduled_tasks'[Len(scheduled_tasks')].start_time = candidates[1][1].start
      ]_vars

\* C12: a placement step that waits for the advisory answer completes
C12_PlacementCompletes == (pc = "advisory") ~> (pc # "advisory")

\* how often a task is in the plan and in the conflict list
PlanCount(t) == Cardinality({ i \in DOMAIN scheduled_tasks : scheduled_tasks[i].task_id = t.id })
ConflictCount(t) == Cardinality({ i \in DOMAIN conflicts : conflicts[i].task = t.description })

\* C13: during a pass no task is in the plan and in the conflict list or
\* twice in one of them, a task already processed is in one of them, and in
\* the returned result every input task is exactly once in exactly one
C13_ExactlyOneOutput ==
    /\ \A k \in DOMAIN tasks : PlanCount(tasks[k]) + ConflictCount(tasks[k]) <= 1
    /\ pc \in {"loop", "advisory", "returned"} =>
          \A m \in DOMAIN sorted_tasks :
              m < idx => PlanCount(sorted_tasks[m]) + ConflictCount(sorted_tasks[m]) = 1
    /\ pc = "returned" =>
          /\ result.scheduled_plan = scheduled_tasks
          /\ result.conflicts = conflicts
          /\ Len(scheduled_tasks) + Len(conflicts) = Len(tasks)
          /\ \A k \in DOMAIN tasks : PlanCount(tasks[k]) + ConflictCount(tasks[k]) = 1

\* a conflict of the first task, for lack of candidates or of a selection,
\* followed by the placement of a later task
C13_Witness ==
    /\ pc = "returned"
    /\ conflicts # <<>>
    /\ scheduled_tasks # <<>>
    /\ conflicts[1].task = sorted_tasks[1].description

\* C14: a returned result has needs_user_input true exactly when its
\* conflict list is non-empty
C14_FollowUpIffConflicts ==
    pc = "returned" => (result.needs_user_input <=> result.conflicts # <<>>)

C14_Witness ==
    /\ pc = "returned"
    /\ result.conflicts # <<>>
    /\ result.needs_user_input

\* the blackout windows of the specification on the day of a slot: before
\* work_hours_start, from work_hours_end on, and the lunch window
InBlackout(slot, prefs) ==
    LET day_start == (slot.start \div MinutesPerDay) * MinutesPerDay
        work_start == day_start
                      + time_fromisoformat(dict_get(prefs, "work_hours_start", HM(9, 0)))
        work_end == day_start
                    + time_fromisoformat(dict_get(prefs, "work_hours_end", HM(17, 0)))
        lunch_start == day_start
                       + time_fromisoformat(dict_get(prefs, "lunch_time_start", HM(13, 0)))
        lunch_end == lunch_start + dict_get(prefs, "lunch_duration_minutes", 60)
    IN \/ Overlaps(slot.start, slot.end, day_start, work_start)
       \/ Overlaps(slot.start, slot.end, work_end, day_start + MinutesPerDay)
       \/ Overlaps(slot.start, slot.end, lunch_start, lunch_end)

\* C15: in the grid every slot that overlaps a blackout window is unavailable
C15_BlackoutUnavailable ==
    \A i \in DOMAIN availability :
        InBlackout(availability[i], preferences) => ~availability[i].available

\* the preferences the caller of the scheduling gave: the argument of a
\* direct call, user_preferences of the state in a workflow run
CallerPreferences == IF node = "direct_call" THEN preferences ELSE state.user_preferences

OmitsWorkAndLunch(prefs) ==
    DOMAIN prefs \cap {"work_hours_start", "work_hours_end", "lunch_time_start",
                       "lunch_duration_minutes"} = {}

\* C16: with preferences that omit the work-hour and lunch fields and no busy
\* block, the grid built for the pass has exactly the slots starting in
\* [09:00, 13:00) and [14:00, 17:00) of each day available
C16_DefaultWorkHours ==
    (pc = "built" /\ events = <<>> /\ OmitsWorkAndLunch(CallerPreferences)) =>
        \A i \in DOMAIN availability :
            LET slot_time == availability[i].start % MinutesPerDay
            IN availability[i].available <=>
                  \/ (9 * 60 <= slot_time /\ slot_time < 13 * 60)
                  \/ (14 * 60 <= slot_time /\ slot_time < 17 * 60)

\* the input of the call is invalid: no task, or a task whose duration is
\* zero or negative
InvalidInput == tasks = <<>> \/ \E k \in DOMAIN tasks : tasks[k].duration_minutes <= 0

\* C17: a direct call with invalid input does no grid work, places no task
\* and returns no plan
C17_InvalidInputRejected ==
    (node = "direct_call" /\ InvalidInput) =>
        /\ availability = <<>>
        /\ scheduled_tasks = <<>>
        /\ pc # "returned"

\* the example: one day, default work hours and lunch, the dentist block
\* 10:00-10:45, T1 and T2, the earliest candidate chosen
ExampleScenario ==
    /\ pc = "returned"
    /\ horizon = 1
    /\ OmitsWorkAndLunch(preferences)
    /\ events = <<Dentist>>
    /\ tasks = <<ExampleT1, ExampleT2>>
    /\ response_str = call_llm_fallback

\* C18: in the example T1 is placed at 10:45-12:15 and T2 is a conflict for
\* lack of a slot of the required duration
C18_ExampleScenario ==
    ExampleScenario =>
        /\ Len(result.scheduled_plan) = 1
        /\ result.scheduled_plan[1].task_id = ExampleT1.id
        /\ result.scheduled_plan[1].start_time = At(0, 10, 45)
        /\ result.scheduled_plan[1].end_time = At(0, 12, 15)
        /\ result.conflicts = <<[task |-> ExampleT2.description, reason |-> NoSlotsReason]>>

C18_Witness == ExampleScenario /\ result.needs_user_input

\* C19: decompose is the entry point of a run and no step of the workflow
\* enters it again; the step that leaves it goes to schedule
C19_DecomposeOnce ==
    [][ /\ node' # "decompose"
        /\ node = "decompose" => node' = "schedule" ]_vars

\* a run that went through ask_user, a second scheduling pass and integrate
C19_Witness == node = "END" /\ schedule_runs >= 2 /\ "show_conflicts_to_user" \in DOMAIN state

\* slots are contiguous and strictly increasing in start time, so they do
\* not overlap
GridWellFormed(grid) ==
    \A i \in DOMAIN grid :
        /\ grid[i].start < grid[i].end
        /\ i > 1 => grid[i].start = grid[i - 1].end

\* C20: every grid of a scheduling invocation, one day or seven, is
\* contiguous and strictly increasing, and a step that changes a grid it
\* already has changes availability flags only
C20_GridContiguous ==
    [][ /\ GridWellFormed(availability')
        /\ pc' \in {"built", "loop", "advisory", "returned"} =>
              Len(availability') = horizon * (MinutesPerDay \div SlotMinutes)
        /\ pc \in {"loop", "advisory"} =>
              /\ Len(availability') = Len(availability)
              /\ \A i \in DOMAIN availability :
                    /\ availability'[i].start = availability[i].start
                    /\ availability'[i].end = availability[i].end
      ]_vars

\* the seven-day grid after a placement
C20_Witness ==
    /\ horizon = HorizonDays
    /\ scheduled_tasks # <<>>
    /\ \E i \in DOMAIN availability : availability[i].start = At(1, 0, 0)

\* what the builder's inputs say about a slot: it starts inside the work
\* hours, it does not overlap the lunch window of its day, and it overlaps no
\* busy block that starts on its day
DeclaredAvailable(slot, evs, prefs) ==
    LET day == slot.start \div MinutesPerDay
        day_start == day * MinutesPerDay
        slot_time == slot.start % MinutesPerDay
        work_start == time_fromisoformat(dict_get(prefs, "work_hours_start", HM(9, 0)))
        work_end == time_fromisoformat(dict_get(prefs, "work_hours_end", HM(17, 0)))
        lunch_start == day_start
                       + time_fromisoformat(dict_get(prefs, "lunch_time_start", HM(13, 0)))
        lunch_end == lunch_start + dict_get(prefs, "lunch_duration_minutes", 60)
    IN /\ work_start <= slot_time /\ slot_time < work_end
       /\ ~Overlaps(slot.start, slot.end, lunch_start, lunch_end)
       /\ \A k \in DOMAIN evs :
             evs[k].start \div MinutesPerDay = day =>
                ~Overlaps(slot.start, slot.end, evs[k].start, evs[k].end)

\* C21: the grid a build returns is determined by the days, the busy blocks
\* and the preferences alone, so two builds from identical inputs return
\* identical grids, and the build leaves its inputs unchanged
C21_BuildDeterministic ==
    [][ pc' = "built" =>
          /\ events' = events
          /\ preferences' = preferences
          /\ horizon' = horizon
          /\ Len(availability') = horizon * (MinutesPerDay \div SlotMinutes)
          /\ \A i \in DOMAIN availability' :
                /\ availability'[i].start = (i - 1) * SlotMinutes
                /\ availability'[i].end = i * SlotMinutes
                /\ availability'[i].available
                      <=> DeclaredAvailable(availability'[i], events, preferences)
      ]_vars

\* the grid built again in a later pass of the same run
C21_Witness ==
    /\ pc = "built"
    /\ schedule_runs >= 2
    /\ events # <<>>
    /\ scheduled_tasks # <<>>

\* ceil(d / SlotMinutes) for d > 0
CeilSlots(d) == (d + SlotMinutes - 1) \div SlotMinutes

\* the first positions of the windows of n consecutive slots of the grid in
\* which every slot is available
QualifyingStarts(grid, n) ==
    { j \in 1..(Len(grid) - n + 1) : \A q \in j..(j + n - 1) : grid[q].available }

\* the task the loop is at
CurrentTask == sorted_tasks[idx]

AtPositiveTask ==
    /\ pc \in {"loop", "advisory"}
    /\ idx <= Len(sorted_tasks)
    /\ CurrentTask.duration_minutes > 0

\* C22: for a task of positive duration the candidate search returns exactly
\* the windows of ceil(d / 15) consecutive available slots, each once, in
\* chronological order
C22_CandidatesExact ==
    AtPositiveTask =>
        LET n == CeilSlots(CurrentTask.duration_minutes)
            candidates == find_candidate_slots(CurrentTask, availability)
            starts == QualifyingStarts(availability, n)
        IN /\ Len(candidates) = Cardinality(starts)
           /\ \A c \in DOMAIN candidates :
                 /\ Len(candidates[c]) = n
                 /\ \E j \in starts : candidates[c] = SubSeq(availability, j, j + n - 1)
                 /\ c > 1 => candidates[c - 1][1].start < candidates[c][1].start

\* a task whose duration is not a multiple of the slot length, with
\* overlapping candidate windows
C22_Witness ==
    /\ AtPositiveTask
    /\ pc = "advisory"
    /\ CurrentTask.duration_minutes % SlotMinutes # 0
    /\ Cardinality(QualifyingStarts(availability, CeilSlots(CurrentTask.duration_minutes))) >= 2

\* the slot lies inside the interval of a plan entry
InsideEntry(slot, entry) == entry.start_time <= slot.start /\ slot.end <= entry.end_time

InPass == pc \in {"loop", "advisory", "returned", "raised"} /\ idx >= 1

\* C23: during a pass every slot of the window of a placed task is
\* unavailable, and the candidate search of the task the loop is at returns
\* no window with a slot of a placed task
C23_PlacementVisible ==
    InPass =>
        /\ \A e \in DOMAIN scheduled_tasks : \A i \in DOMAIN availability :
              Overlaps(availability[i].start, availability[i].end,
                       scheduled_tasks[e].start_time, scheduled_tasks[e].end_time)
              => ~availability[i].available
        /\ (pc \in {"loop", "advisory"} /\ idx <= Len(sorted_tasks)) =>
              LET candidates == find_candidate_slots(CurrentTask, availability)
              IN \A c \in DOMAIN candidates : \A q \in DOMAIN candidates[c] :
                    \A e \in DOMAIN scheduled_tasks :
                        ~Overlaps(candidates[c][q].start, candidates[c][q].end,
                                  scheduled_tasks[e].start_time, scheduled_tasks[e].end_time)

\* a later task has candidates after an earlier one was placed
C23_Witness ==
    /\ pc = "advisory"
    /\ scheduled_tasks # <<>>
    /\ Len(find_candidate_slots(CurrentTask, availability)) >= 2

\* C25: a loop iteration changes no slot's start or end, makes no slot
\* available, and changes the flag only of slots inside the window of the
\* task it places; an iteration that places nothing leaves the grid as it is
C25_PlacementFrame ==
    [][ (pc \in {"loop", "advisory"} /\ idx' = idx + 1) =>
          /\ Len(availability') = Len(availability)
          /\ \A i \in DOMAIN availability :
                /\ availability'[i].start = availability[i].start
                /\ availability'[i].end = availability[i].end
                /\ availability'[i].available => availability[i].available
                /\ availability'[i].available # availability[i].available =>
                      /\ Len(scheduled_tasks') = Len(scheduled_tasks) + 1
                      /\ InsideEntry(availability[i], scheduled_tasks'[Len(scheduled_tasks')])
      ]_vars

\* a placement that is not the first of the grid's free slots
C25_Witness ==
    /\ pc = "loop"
    /\ scheduled_tasks # <<>>
    /\ \E i \in DOMAIN availability :
          /\ availability[i].available
          /\ availability[i].end <= scheduled_tasks[1].start_time

\* a scheduling call of the workflow has returned, and the call before it
\* (the previous pass of the same run: same task dicts, same preferences)
\* had the same busy blocks and the same advisory responses
SecondCallSameInputs ==
    /\ node = "schedule"
    /\ pc = "returned"
    /\ schedule_runs >= 2
    /\ call_log.prev_events = events
    /\ call_log.prev_responses = call_log.responses

\* C24: a scheduling call given the same tasks, preferences, busy blocks and
\* advisory responses as the call before it returns the same plan and the
\* same conflicts
C24_SameInputsSameResult ==
    SecondCallSameInputs =>
        /\ result.scheduled_plan = state.scheduling_plan
        /\ result.conflicts = state.conflicts

WithoutId(task) == [task EXCEPT !.id = None]

C28_FailureRoutesToIntegrate ==
    [][ /\ (node = "schedule" /\ node' = "route"
              /\ (pc = "raised" \/ state.decomposed_tasks = <<>>)) =>
              /\ Len(state'.errors) = Len(state.errors) + 1
              /\ state'.needs_user_input = FALSE
              /\ state'.scheduling_plan = state.scheduling_plan
              /\ state'.conflicts = state.conflicts
        /\ (node = "route" /\ state.needs_user_input = FALSE) =>
              /\ node' = "integrate"
              /\ state'.scheduling_plan = state.scheduling_plan
              /\ state'.conflicts = state.conflicts ]_vars

\* the second pass raised and integrate is given the plan of the first
C28_Witness ==
    /\ node = "integrate"
    /\ pc = "idle"
    /\ schedule_runs = 2
    /\ result = None
    /\ state.scheduling_plan # <<>>
    /\ state.conflicts # <<>>
    /\ state.errors # <<>>

\* C29: at the end of a run needs_user_input is false and the response
\* message is not the one asking for input, whatever the conflict list
C29_DoneNeedsNoInput ==
    node = "END" =>
        /\ state.needs_user_input = FALSE
        /\ generate_response_message(state) # "conflicts need your input"

\* a run ended with conflicts without using up its retries
C29_Witness ==
    /\ node = "END"
    /\ state.conflicts # <<>>
    /\ state.errors # <<>>
    /\ schedule_runs <= MaxConflictRetries

\* the index k of the candidate whose id, f"slot_{chr(97 + k)}", the response
\* names; -1 when the response is not of that form
NamedIndex(r) ==
    IF r.kind # "json_object" THEN 0 - 1
    ELSE IF r.best_slot_id.type # "str" THEN 0 - 1
    ELSE IF Len(r.best_slot_id.chars) # Len(SlotPrefix) + 1 THEN 0 - 1
    ELSE IF ~startswith(r.best_slot_id.chars, SlotPrefix) THEN 0 - 1
    ELSE r.best_slot_id.chars[Len(SlotPrefix) + 1] - OrdLowerA

\* the advisory call for the current task has returned r, which names the
\* id of one of the task's candidates beyond slot_z
NamesLaterCandidate(r) ==
    /\ pc = "advisory"
    /\ idx <= Len(sorted_tasks)
    /\ NamedIndex(r) >= AlphabetSize
    /\ NamedIndex(r) < Len(find_candidate_slots(CurrentTask, availability))

\* the step records the current task as a conflict and places nothing
RecordedAsConflict ==
    /\ conflicts' = record_conflict(conflicts, CurrentTask, LlmNoneReason)
    /\ scheduled_tasks' = scheduled_tasks
    /\ availability' = availability

\* C30 as stated: a response that names the id of any candidate after the
\* first 26 is treated as no selection and the task becomes a conflict
C30_LaterCandidatesUnselectable ==
    [][ (idx' = idx + 1 /\ NamesLaterCandidate(response_str')) => RecordedAsConflict ]_vars

\* C30 amended: the named candidate is never the one chosen; the task becomes
\* a conflict, except for the id of candidate 207, chr(304), on which the
\* parser fails and the first candidate is placed
C30_LaterCandidatesNotChosen ==
    [][ (idx' = idx + 1 /\ NamesLaterCandidate(response_str')) =>
          IF NamedIndex(response_str') = DottedCapitalI - OrdLowerA
          THEN LET first == find_candidate_slots(CurrentTask, availability)[1]
               IN /\ conflicts' = conflicts
                  /\ Len(scheduled_tasks') = Len(scheduled_tasks) + 1
                  /\ scheduled_tasks'[Len(scheduled_tasks')].start_time = first[1].start
          ELSE RecordedAsConflict ]_vars

\* a task with more than 26 candidates became a conflict on the answer slot_{
C30_Witness ==
    /\ pc = "loop"
    /\ idx >= 2
    /\ response_str = JsonObject(Str(slot_id(AlphabetSize)))
    /\ Len(find_candidate_slots(sorted_tasks[idx - 1], availability)) > AlphabetSize
    /\ scheduled_tasks = <<>>
    /\ conflicts # <<>>
    /\ conflicts[Len(conflicts)].reason = LlmNoneReason

====
